---- MODULE Spec2Model ----
(***************************************************************************)
(* Model of libdnf/dnf-keyring.cpp: the rpm keyring helpers                *)
(*   dnf_keyring_add_public_key      (import of one key file)              *)
(*   dnf_keyring_add_public_keys     (load of /etc/pki/rpm-gpg)            *)
(*   dnf_keyring_check_untrusted_file (verification of one package)        *)
(* Every caller is a process with a program counter; one action is one     *)
(* step of the C code between two calls into glib / librpm.                *)
(***************************************************************************)
EXTENDS Integers, Sequences, FiniteSets

(* ----------------------------- bounds ---------------------------------- *)
NumProcs == 2
NumKeyIds == 3
MaxSubkeys == 2
MaxDirEntries == 2
MaxLogLines == 2
MaxLineLen == 2
MaxRaceLogLines == 1

Procs == 1..NumProcs
KeyIds == 1..NumKeyIds
\* the key id whose packet librpm refuses to add (rpmKeyringAddKey < 0)
BadKeyIds == {NumKeyIds}
NoKey == 0

(* ------------------- librpm / glib result values ------------------------ *)
RPMRC_OK == 0
RPMRC_NOTFOUND == 1
RPMRC_NOKEY == 4
PGPARMOR_ERROR == -1
PGPARMOR_NONE == 0
PGPARMOR_PUBKEY == 2
PGPARMOR_SIGNATURE == 3

(* ----------------------------- key files -------------------------------- *)
InjectiveSeqs(S, n) ==
    {s \in UNION {[1..m -> S] : m \in 0..n} :
        \A i, j \in DOMAIN s : s[i] = s[j] => i = j}

\* what pgpParsePkts / rpmPubkeyNew / rpmGetSubkeys make of the bytes of a file
NoContent == [armor |-> PGPARMOR_ERROR, keyok |-> FALSE, primary |-> NoKey, subkeys |-> <<>>]

KeyContents ==
    {[armor |-> PGPARMOR_PUBKEY, keyok |-> TRUE, primary |-> k, subkeys |-> s] :
        k \in KeyIds, s \in InjectiveSeqs(KeyIds, MaxSubkeys)}

Contents ==
    {c \in KeyContents : \A i \in DOMAIN c.subkeys : c.subkeys[i] # c.primary}
    \cup {[NoContent EXCEPT !.armor = a] : a \in {PGPARMOR_ERROR, PGPARMOR_NONE, PGPARMOR_SIGNATURE}}
    \cup {[NoContent EXCEPT !.armor = PGPARMOR_PUBKEY]}

\* a path as the file system shows it: what it resolves to, whether the path
\* itself is a symbolic link, whether its bytes can be read, and the bytes
KeyFiles ==
    {[ftype |-> "regular", symlink |-> l, readable |-> TRUE, content |-> c] :
        l \in BOOLEAN, c \in Contents}
    \cup {[ftype |-> "regular", symlink |-> l, readable |-> FALSE, content |-> NoContent] :
        l \in BOOLEAN}
    \cup {[ftype |-> t, symlink |-> l, readable |-> FALSE, content |-> NoContent] :
        t \in {"directory", "special", "missing"}, l \in BOOLEAN}

NoFile == [ftype |-> "missing", symlink |-> FALSE, readable |-> FALSE, content |-> NoContent]

\* g_file_test(filename, G_FILE_TEST_IS_REGULAR) follows symbolic links
IsRegular(f) == f.ftype = "regular"
\* g_file_test(filename, G_FILE_TEST_IS_SYMLINK) looks at the path itself
IsSymlink(f) == f.symlink

(* ----------------------------- packages -------------------------------- *)
\* a package file as the calls into librpm see it: the result of Fopen, of
\* rpmtsSetKeyring, whether a trust source wider than the bound keyring (or a
\* permissive configuration) lets the chain check pass, whether the signature
\* over the file is cryptographically valid, whether rpmReadPackageFile can
\* read the header, the signer named by the RSA and by the DSA header
\* signature field (NoKey: field absent), whether pgpPrtPkts can decode it
NoPackage == [open |-> "null", setkeyring |-> FALSE, ambient |-> FALSE, sigvalid |-> FALSE,
              hdrok |-> FALSE, rsa |-> NoKey, dsa |-> NoKey, digestok |-> FALSE]

Packages ==
    {[open |-> "ok", setkeyring |-> sk, ambient |-> am, sigvalid |-> sv,
      hdrok |-> ho, rsa |-> r, dsa |-> d, digestok |-> dg] :
        sk \in BOOLEAN, am \in BOOLEAN, sv \in BOOLEAN, ho \in BOOLEAN,
        r \in KeyIds \cup {NoKey}, d \in KeyIds \cup {NoKey}, dg \in BOOLEAN}
    \cup {[NoPackage EXCEPT !.open = o] : o \in {"null", "ferror"}}

\* the signature fields a package carries
Signers(pkg) == {pkg.rsa, pkg.dsa} \ {NoKey}

\* a package that opens, binds, reads and decodes without trouble
WellFormed(pkg) ==
    pkg.open = "ok" /\ pkg.setkeyring /\ pkg.hdrok /\ pkg.digestok

(* ------------------------------ errors ---------------------------------- *)
NoError == [code |-> "", msg |-> ""]
GError(c, m) == [code |-> c, msg |-> m]

(* ------------------------------ keyring --------------------------------- *)
\* number of entries the keyring holds for each key id
EmptyKeyring == [k \in KeyIds |-> 0]
Keys(kr) == {k \in KeyIds : kr[k] > 0}

\* rpmKeyringLookup: RPMRC_OK iff the signer named by the digest is in the keyring
rpmKeyringLookup(kr, signer) ==
    IF signer \in KeyIds /\ kr[signer] > 0 THEN RPMRC_OK ELSE RPMRC_NOKEY

\* variant: adding a key drops the keys the keyring held before
rpmKeyringAddKey_replaces(kr, k) ==
    IF k \in BadKeyIds THEN [rc |-> -1, keyring |-> kr]
    ELSE IF kr[k] > 0 THEN [rc |-> 1, keyring |-> kr]
    ELSE [rc |-> 0, keyring |-> [j \in KeyIds |-> IF j = k THEN 1 ELSE 0]]

\* rpmKeyringAddKey: -1 on failure, 1 if the key is already there, 0 if added
rpmKeyringAddKey(kr, k) ==
    IF k \in BadKeyIds THEN [rc |-> -1, keyring |-> kr]
    ELSE IF kr[k] > 0 THEN [rc |-> 1, keyring |-> kr]
    ELSE [rc |-> 0, keyring |-> [kr EXCEPT ![k] = @ + 1]]

\* rpmcliVerifySignatures on a session bound to keyring kr: 0 (pass) when the
\* package is readable, signed, every signature is valid and made by a key of
\* kr, or when a wider trust source accepts the file; non-zero otherwise
rpmcliVerifySignatures(kr, pkg) ==
    IF \/ pkg.ambient
       \/ /\ pkg.sigvalid /\ pkg.hdrok /\ pkg.digestok
          /\ Signers(pkg) # {}
          /\ Signers(pkg) \subseteq Keys(kr)
    THEN 0 ELSE 1

\* headerGet: 1 when the tag is in the header, 0 when it is not
headerGet(pkg, tag) ==
    IF tag = "RPMTAG_RSAHEADER" THEN (IF pkg.rsa # NoKey THEN 1 ELSE 0)
    ELSE (IF pkg.dsa # NoKey THEN 1 ELSE 0)

(* ------------------------------ rpm log --------------------------------- *)
\* the text of a log record, as rpmlogRecMessage returns it: a string of
\* characters, which rpm ends with a line terminator or not
Chars == {"a", "\n"}
LogLines == UNION {[1..n -> Chars] : n \in 1..MaxLineLen}
\* the one text rpm logs for the callers that do not serialise
RaceLogLines == {<<"a", "\n">>}

\* lines 222-240: the GString is <<>> when the pointer is NULL and <<text>>
\* otherwise; create it if required, join with ": " if text already exists,
\* append the message, remove the last character
rpmcliverifysignatures_log_handler_cb(string, message) ==
    LET s0 == IF string = <<>> THEN <<>> ELSE string[1]
        s1 == IF Len(s0) > 0 THEN s0 \o <<":", " ">> ELSE s0
        s2 == s1 \o message
    IN <<IF Len(s2) > 0 THEN SubSeq(s2, 1, Len(s2) - 1) ELSE s2>>

(* ------------------------------- state ---------------------------------- *)
VARIABLES
    keyring,    \* the shared rpmKeyring
    serial,     \* TRUE: the callers serialise their calls
    pc,         \* position of each caller
    op,         \* the entry point a caller is in
    filename,   \* the file the running call was given
    data,       \* import: the parsed contents of the file
    ret,        \* the local "ret"
    error,      \* the GError handed back
    outcome,    \* the g_debug line of the success paths
    subidx,     \* import: the loop variable i of the subkey loop
    kr0,        \* history: the keyring when the call started
    attempts,   \* history: the keys handed to rpmKeyringAddKey by the call
    didRead,    \* history: g_file_get_contents was called
    rpmlogCallback, \* the process-wide rpm log callback: 0, or the caller whose sink it is
    package,    \* verify: the package file the running call was given
    td,         \* verify: the tag whose data the rpmtd holds ("" when none)
    dig,        \* verify: the signer named by the decoded digest
    steps,      \* verify: history, the steps the call has executed, in order
    imported,   \* history: the primary keys an import call has reported as added
    lcount,     \* load: history, the entries g_dir_read_name has returned
    linvoked,   \* load: history, the calls of dnf_keyring_add_public_key made
    warnings,   \* load: history, the g_warning lines written
    lmust,      \* load: history, the keys before the call and the addable
                \*       primary keys of the importable entries read
    lexact,     \* load: history, the keys before the call and all keys of
                \*       the valid entries read
    lmay,       \* load: history, the keys before the call and all keys of
                \*       the importable entries read
    held,       \* the local pointers of the call that are not NULL
    released,   \* history: the resources the call has released, in order
    rpm_error,  \* verify: the GString the log handler fills (<<>> when NULL)
    emitted,    \* verify: history, the lines rpm logged for the file of the call
    captured,   \* verify: history, the lines appended to rpm_error, each with
                \*         the caller whose chain check logged it
    hdrtags,    \* verify: history, the header tags looked up, in order
    diag,       \* verify: the diagnostic text put into the chain check's error
    readlink,   \* import: history, the bytes were read through a symbolic link
    prev        \* history: failing step and error code of the last verify
                \*          call a caller has kept the error of

vars == <<keyring, serial, pc, op, filename, data, ret, error, outcome, subidx,
          kr0, attempts, didRead, rpmlogCallback, package, td, dig, steps, imported,
          lcount, linvoked, warnings, lmust, lexact, lmay,
          held, released, rpm_error, emitted, captured, hdrtags, diag, readlink, prev>>

xvars == <<held, released, rpm_error, emitted, captured, hdrtags, diag, readlink, prev>>
lvars == <<lcount, linvoked, warnings, lmust, lexact, lmay>>

\* the locals of an import call, and those of a verify call
ilocals == <<filename, data, subidx, attempts, didRead>>
vlocals == <<package, td, dig, steps>>
locals == <<filename, data, ret, error, outcome, subidx, kr0, attempts, didRead,
            package, td, dig, steps>>

InitCommon ==
    /\ keyring = EmptyKeyring
    /\ pc = [p \in Procs |-> "idle"]
    /\ op = [p \in Procs |-> "none"]
    /\ filename = [p \in Procs |-> NoFile]
    /\ data = [p \in Procs |-> NoContent]
    /\ ret = [p \in Procs |-> TRUE]
    /\ error = [p \in Procs |-> NoError]
    /\ outcome = [p \in Procs |-> ""]
    /\ subidx = [p \in Procs |-> 0]
    /\ kr0 = [p \in Procs |-> EmptyKeyring]
    /\ attempts = [p \in Procs |-> <<>>]
    /\ didRead = [p \in Procs |-> FALSE]
    /\ rpmlogCallback = 0
    /\ package = [p \in Procs |-> NoPackage]
    /\ td = [p \in Procs |-> ""]
    /\ dig = [p \in Procs |-> NoKey]
    /\ steps = [p \in Procs |-> <<>>]
    /\ imported = {}
    /\ lcount = [p \in Procs |-> 0]
    /\ linvoked = [p \in Procs |-> 0]
    /\ warnings = [p \in Procs |-> 0]
    /\ lmust = [p \in Procs |-> {}]
    /\ lexact = [p \in Procs |-> {}]
    /\ lmay = [p \in Procs |-> {}]
    /\ held = [p \in Procs |-> {}]
    /\ released = [p \in Procs |-> <<>>]
    /\ rpm_error = [p \in Procs |-> <<>>]
    /\ emitted = [p \in Procs |-> <<>>]
    /\ captured = [p \in Procs |-> <<>>]
    /\ hdrtags = [p \in Procs |-> <<>>]
    /\ diag = [p \in Procs |-> <<>>]
    /\ readlink = [p \in Procs |-> FALSE]
    /\ prev = <<>>

Init == InitCommon /\ serial = TRUE

(* ----------------------------- resources -------------------------------- *)
\* a local pointer of a call; the handles of the subkey array carry their index
Res(name) == <<name, 0>>
Subkey(i) == <<"subkey", i>>
Range(s) == {s[i] : i \in DOMAIN s}

\* lines 85 and 108: pgpParsePkts hands back a packet buffer when it has
\* decoded an armor block, rpmPubkeyNew a key handle when the packet parses
ParseHeld(d) ==
    (IF d.armor > PGPARMOR_NONE THEN {Res("pkt")} ELSE {})
    \cup (IF d.armor = PGPARMOR_PUBKEY /\ d.keyok THEN {Res("pubkey")} ELSE {})

\* line 144: rpmGetSubkeys hands back the array and one handle per subkey
SubkeysHeld(d) == {Res("subkeys")} \cup {Subkey(i) : i \in 1..Len(d.subkeys)}

\* lines 162-174: the frees of the out label of dnf_keyring_add_public_key in
\* their order, each under its test; data is freed when it leaves scope
ImportRelease(h, nsubkeys) ==
    (IF Res("pkt") \in h THEN <<Res("pkt")>> ELSE <<>>)
    \o (IF Res("pubkey") \in h THEN <<Res("pubkey")>> ELSE <<>>)
    \o (IF Res("subkeys") \in h
          THEN [i \in 1..nsubkeys |-> Subkey(i)] \o <<Res("subkeys")>> ELSE <<>>)
    \o (IF Res("dig") \in h THEN <<Res("dig")>> ELSE <<>>)
    \o (IF Res("data") \in h THEN <<Res("data")>> ELSE <<>>)

\* variant: the out label frees every pointer without testing it
VerifyRelease_untested(h) ==
    <<Res("path"), Res("dig"), Res("td"), Res("ts"), Res("hdr"), Res("fd")>>
    \o (IF Res("rpm_error") \in h THEN <<Res("rpm_error")>> ELSE <<>>)

\* lines 368-381: the frees of the out label of dnf_keyring_check_untrusted_file
\* in their order, each under its test; rpm_error is freed when it leaves scope
VerifyRelease(h) ==
    (IF Res("path") \in h THEN <<Res("path")>> ELSE <<>>)
    \o (IF Res("dig") \in h THEN <<Res("dig")>> ELSE <<>>)
    \o (IF Res("td") \in h THEN <<Res("td")>> ELSE <<>>)
    \o (IF Res("ts") \in h THEN <<Res("ts")>> ELSE <<>>)
    \o (IF Res("hdr") \in h THEN <<Res("hdr")>> ELSE <<>>)
    \o (IF Res("fd") \in h THEN <<Res("fd")>> ELSE <<>>)
    \o (IF Res("rpm_error") \in h THEN <<Res("rpm_error")>> ELSE <<>>)

\* line 300: the text used when the log handler was never called
UnknownError == <<"UNKNOWN ERROR">>

\* a caller may enter a call when it is idle and, if the callers serialise,
\* nobody else is inside a call
MayStart(p) ==
    /\ pc[p] = "idle"
    /\ serial => \A q \in Procs : pc[q] = "idle"

(* --------------------- dnf_keyring_add_public_key ----------------------- *)
\* entry: the locals as declared at the top of the function
ImportEnter(p, f) ==
    /\ filename' = [filename EXCEPT ![p] = f]
    /\ data' = [data EXCEPT ![p] = NoContent]
    /\ ret' = [ret EXCEPT ![p] = TRUE]
    /\ error' = [error EXCEPT ![p] = NoError]
    /\ outcome' = [outcome EXCEPT ![p] = ""]
    /\ subidx' = [subidx EXCEPT ![p] = 0]
    /\ kr0' = [kr0 EXCEPT ![p] = keyring]
    /\ attempts' = [attempts EXCEPT ![p] = <<>>]
    /\ didRead' = [didRead EXCEPT ![p] = FALSE]
    /\ held' = [held EXCEPT ![p] = {}]
    /\ released' = [released EXCEPT ![p] = <<>>]
    /\ readlink' = [readlink EXCEPT ![p] = FALSE]

ImportCall(p) ==
    /\ MayStart(p)
    /\ \E f \in KeyFiles :
        /\ (\E q \in Procs : q # p /\ op[q] = "import") =>
               (\E q \in Procs : q # p /\ op[q] = "import" /\ filename[q] = f)
        /\ ImportEnter(p, f)
    /\ pc' = [pc EXCEPT ![p] = "i_test"]
    /\ op' = [op EXCEPT ![p] = "import"]
    /\ UNCHANGED <<rpm_error, emitted, captured, hdrtags, diag, prev,
                   lvars, keyring, serial, imported, rpmlogCallback, vlocals>>

\* variant: the symbolic-link test is missing
ImportTest_noSymlinkTest(p) ==
    /\ pc[p] = "i_test"
    /\ pc' = [pc EXCEPT ![p] = IF ~IsRegular(filename[p]) THEN "i_out" ELSE "i_read"]
    /\ UNCHANGED <<xvars, lvars, keyring, serial, imported, op, locals, rpmlogCallback>>

\* lines 73-77: ignore symlinks and directories
ImportTest(p) ==
    /\ pc[p] = "i_test"
    /\ pc' = [pc EXCEPT ![p] =
                IF ~IsRegular(filename[p]) THEN "i_out"
                ELSE IF IsSymlink(filename[p]) THEN "i_out"
                ELSE "i_read"]
    /\ UNCHANGED <<xvars, lvars, keyring, serial, imported, op, locals, rpmlogCallback>>

\* lines 74-80: another process replaces the file by a symbolic link after
\* the two g_file_test calls and before g_file_get_contents opens the path
FsReplace(p) ==
    /\ pc[p] = "i_read"
    /\ ~IsSymlink(filename[p])
    /\ \E f \in KeyFiles :
        /\ IsSymlink(f)
        /\ filename' = [filename EXCEPT ![p] = f]
    /\ UNCHANGED <<xvars, lvars, keyring, serial, imported, pc, op, data, ret, error, outcome,
                   subidx, kr0, attempts, didRead, rpmlogCallback, vlocals>>

\* lines 79-82: g_file_get_contents
ImportRead(p) ==
    /\ pc[p] = "i_read"
    /\ didRead' = [didRead EXCEPT ![p] = TRUE]
    /\ IF filename[p].readable
         THEN /\ data' = [data EXCEPT ![p] = filename[p].content]
              /\ ret' = [ret EXCEPT ![p] = TRUE]
              /\ error' = error
              /\ pc' = [pc EXCEPT ![p] = "i_parse"]
         ELSE /\ data' = data
              /\ ret' = [ret EXCEPT ![p] = FALSE]
              /\ error' = [error EXCEPT ![p] = GError("G_FILE_ERROR", "g_file_get_contents")]
              /\ pc' = [pc EXCEPT ![p] = "i_out"]
    /\ held' = [held EXCEPT ![p] = @ \cup (IF filename[p].readable THEN {Res("data")} ELSE {})]
    /\ readlink' = [readlink EXCEPT ![p] = IsSymlink(filename[p])]
    /\ UNCHANGED <<released, rpm_error, emitted, captured, hdrtags, diag, prev,
                   lvars, keyring, serial, imported, op, filename, outcome, subidx, kr0, attempts,
                   rpmlogCallback, vlocals>>

\* variant: the armor type is not compared with PGPARMOR_PUBKEY
ParseError_noArmorType(d) ==
    IF d.armor < 0 THEN "failed to parse PKI file"
    ELSE IF ~d.keyok THEN "failed to parse public key"
    ELSE ""

\* lines 84-117: pgpParsePkts, the armor type, rpmPubkeyNew
ParseError(d) ==
    IF d.armor < 0 THEN "failed to parse PKI file"
    ELSE IF d.armor # PGPARMOR_PUBKEY THEN "is not a public key"
    ELSE IF ~d.keyok THEN "failed to parse public key"
    ELSE ""

ImportParse(p) ==
    /\ pc[p] = "i_parse"
    /\ IF ParseError(data[p]) # ""
         THEN /\ ret' = [ret EXCEPT ![p] = FALSE]
              /\ error' = [error EXCEPT ![p] =
                              GError("DNF_ERROR_GPG_SIGNATURE_INVALID", ParseError(data[p]))]
              /\ pc' = [pc EXCEPT ![p] = "i_out"]
         ELSE /\ UNCHANGED <<ret, error>>
              /\ pc' = [pc EXCEPT ![p] = "i_lookup"]
    /\ held' = [held EXCEPT ![p] = @ \cup ParseHeld(data[p])]
    /\ UNCHANGED <<released, rpm_error, emitted, captured, hdrtags, diag, readlink, prev,
                   lvars, keyring, serial, imported, op, filename, data, outcome, subidx, kr0, attempts,
                   didRead, rpmlogCallback, vlocals>>

\* lines 119-126: does the key exist in the keyring.  The digest made by
\* rpmPubkeyDig names the key itself as signer when the key packet carries a
\* self signature, and no signer otherwise.
ImportLookup(p) ==
    /\ pc[p] = "i_lookup"
    /\ \E signer \in {data[p].primary, NoKey} :
        IF rpmKeyringLookup(keyring, signer) = RPMRC_OK
          THEN /\ ret' = [ret EXCEPT ![p] = TRUE]
               /\ outcome' = [outcome EXCEPT ![p] = "is already present"]
               /\ pc' = [pc EXCEPT ![p] = "i_out"]
          ELSE /\ UNCHANGED <<ret, outcome>>
               /\ pc' = [pc EXCEPT ![p] = "i_add"]
    /\ held' = [held EXCEPT ![p] = @ \cup {Res("dig")}]
    /\ UNCHANGED <<released, rpm_error, emitted, captured, hdrtags, diag, readlink, prev,
                   lvars, keyring, serial, imported, op, filename, data, error, subidx, kr0, attempts,
                   didRead, rpmlogCallback, vlocals>>

\* variant: "already added" (rc = 1) is not told apart from "added"
ImportAddResult_noAlreadyAdded(rc) ==
    IF rc < 0 THEN [ret |-> FALSE, outcome |-> "",
                    msg |-> "failed to add public key", next |-> "i_out"]
    ELSE [ret |-> TRUE, outcome |-> "", msg |-> "", next |-> "i_subkeys"]

\* variant: every non-zero return of the add primitive is taken as a failure
ImportAddResult_failsOnExisting(rc) ==
    IF rc # 0 THEN [ret |-> FALSE, outcome |-> "",
                    msg |-> "failed to add public key", next |-> "i_out"]
    ELSE [ret |-> TRUE, outcome |-> "", msg |-> "", next |-> "i_subkeys"]

\* lines 128-142: add to rpmdb automatically, without a prompt
ImportAddResult(rc) ==
    IF rc = 1 THEN [ret |-> TRUE, outcome |-> "is already added", msg |-> "", next |-> "i_out"]
    ELSE IF rc < 0 THEN [ret |-> FALSE, outcome |-> "",
                         msg |-> "failed to add public key", next |-> "i_out"]
    ELSE [ret |-> TRUE, outcome |-> "", msg |-> "", next |-> "i_subkeys"]

\* variant: the key is not stored although the call goes on as if it were
ImportAdd_discardsKey(p) ==
    /\ pc[p] = "i_add"
    /\ LET r == rpmKeyringAddKey(keyring, data[p].primary)
           b == ImportAddResult(r.rc)
       IN /\ keyring' = keyring
          /\ attempts' = [attempts EXCEPT ![p] = Append(@, data[p].primary)]
          /\ pc' = [pc EXCEPT ![p] = b.next]
          /\ IF b.next = "i_out"
               THEN /\ ret' = [ret EXCEPT ![p] = b.ret]
                    /\ outcome' = [outcome EXCEPT ![p] = b.outcome]
                    /\ error' = [error EXCEPT ![p] =
                                    IF b.msg = "" THEN @
                                    ELSE GError("DNF_ERROR_GPG_SIGNATURE_INVALID", b.msg)]
               ELSE UNCHANGED <<ret, outcome, error>>
    /\ held' = [held EXCEPT ![p] = IF ImportAddResult(rpmKeyringAddKey(keyring, data[p].primary).rc).next = "i_subkeys"
                                      THEN @ \cup SubkeysHeld(data[p]) ELSE @]
    /\ UNCHANGED <<released, rpm_error, emitted, captured, hdrtags, diag, readlink, prev,
                   lvars, serial, imported, op, filename, data, subidx, kr0, didRead, rpmlogCallback, vlocals>>

ImportAdd(p) ==
    /\ pc[p] = "i_add"
    /\ LET r == rpmKeyringAddKey(keyring, data[p].primary)
           b == ImportAddResult(r.rc)
       IN /\ keyring' = r.keyring
          /\ attempts' = [attempts EXCEPT ![p] = Append(@, data[p].primary)]
          /\ pc' = [pc EXCEPT ![p] = b.next]
          /\ IF b.next = "i_out"
               THEN /\ ret' = [ret EXCEPT ![p] = b.ret]
                    /\ outcome' = [outcome EXCEPT ![p] = b.outcome]
                    /\ error' = [error EXCEPT ![p] =
                                    IF b.msg = "" THEN @
                                    ELSE GError("DNF_ERROR_GPG_SIGNATURE_INVALID", b.msg)]
               ELSE UNCHANGED <<ret, outcome, error>>
    /\ held' = [held EXCEPT ![p] = IF ImportAddResult(rpmKeyringAddKey(keyring, data[p].primary).rc).next = "i_subkeys"
                                      THEN @ \cup SubkeysHeld(data[p]) ELSE @]
    /\ UNCHANGED <<released, rpm_error, emitted, captured, hdrtags, diag, readlink, prev,
                   lvars, serial, imported, op, filename, data, subidx, kr0, didRead, rpmlogCallback, vlocals>>

\* variant: a failed subkey add sets the error but does not leave the loop
ImportSubkeys_continues(p) ==
    /\ pc[p] = "i_subkeys"
    /\ IF subidx[p] < Len(data[p].subkeys)
         THEN LET k == data[p].subkeys[subidx[p] + 1]
                  r == rpmKeyringAddKey(keyring, k)
              IN /\ keyring' = r.keyring
                 /\ attempts' = [attempts EXCEPT ![p] = Append(@, k)]
                 /\ UNCHANGED imported
                 /\ subidx' = [subidx EXCEPT ![p] = @ + 1]
                 /\ IF r.rc < 0
                      THEN /\ ret' = [ret EXCEPT ![p] = FALSE]
                           /\ error' = [error EXCEPT ![p] =
                                  GError("DNF_ERROR_GPG_SIGNATURE_INVALID", "failed to add subkeys")]
                           /\ UNCHANGED <<outcome, pc>>
                      ELSE UNCHANGED <<ret, error, outcome, pc>>
         ELSE /\ outcome' = [outcome EXCEPT ![p] = "added missing public key"]
              /\ imported' = imported \cup {data[p].primary}
              /\ ret' = [ret EXCEPT ![p] = TRUE]
              /\ pc' = [pc EXCEPT ![p] = "i_out"]
              /\ UNCHANGED <<keyring, attempts, error, subidx>>
    /\ UNCHANGED <<xvars, lvars, serial, op, filename, data, kr0, didRead, rpmlogCallback, vlocals>>

\* lines 144-160: one turn of the subkey loop, or its exit
ImportSubkeys(p) ==
    /\ pc[p] = "i_subkeys"
    /\ IF subidx[p] < Len(data[p].subkeys)
         THEN LET k == data[p].subkeys[subidx[p] + 1]
                  r == rpmKeyringAddKey(keyring, k)
              IN /\ keyring' = r.keyring
                 /\ attempts' = [attempts EXCEPT ![p] = Append(@, k)]
                 /\ UNCHANGED imported
                 /\ IF r.rc < 0
                      THEN /\ ret' = [ret EXCEPT ![p] = FALSE]
                           /\ error' = [error EXCEPT ![p] =
                                  GError("DNF_ERROR_GPG_SIGNATURE_INVALID", "failed to add subkeys")]
                           /\ pc' = [pc EXCEPT ![p] = "i_out"]
                           /\ UNCHANGED <<subidx, outcome>>
                      ELSE /\ subidx' = [subidx EXCEPT ![p] = @ + 1]
                           /\ UNCHANGED <<ret, error, outcome, pc>>
         ELSE /\ outcome' = [outcome EXCEPT ![p] = "added missing public key"]
              /\ imported' = imported \cup {data[p].primary}
              /\ ret' = [ret EXCEPT ![p] = TRUE]
              /\ pc' = [pc EXCEPT ![p] = "i_out"]
              /\ UNCHANGED <<keyring, attempts, error, subidx>>
    /\ UNCHANGED <<xvars, lvars, serial, op, filename, data, kr0, didRead, rpmlogCallback, vlocals>>

\* lines 161-174: the out label; the call returns ret
ImportOut(p) ==
    /\ pc[p] = "i_out"
    /\ pc' = [pc EXCEPT ![p] = IF op[p] = "load" THEN "l_check" ELSE "done"]
    /\ released' = [released EXCEPT ![p] = ImportRelease(held[p], Len(data[p].subkeys))]
    /\ held' = [held EXCEPT ![p] = @ \ Range(ImportRelease(held[p], Len(data[p].subkeys)))]
    /\ UNCHANGED <<rpm_error, emitted, captured, hdrtags, diag, readlink, prev,
                   lvars, keyring, serial, imported, op, locals, rpmlogCallback>>

(* --------------------- dnf_keyring_add_public_keys ---------------------- *)
\* the keys a key file holds, and the files import can turn into a key
FileKeys(f) == {f.content.primary} \cup {f.content.subkeys[i] : i \in DOMAIN f.content.subkeys}
Importable(f) ==
    /\ IsRegular(f) /\ ~IsSymlink(f) /\ f.readable
    /\ f.content.armor = PGPARMOR_PUBKEY /\ f.content.keyok
\* a valid key file: importable, and librpm accepts each of its keys
ValidKeyFile(f) == Importable(f) /\ FileKeys(f) \cap BadKeyIds = {}

\* lines 191-194: the locals as declared at the top of the function
LoadCall(p) ==
    /\ MayStart(p)
    /\ pc' = [pc EXCEPT ![p] = "l_open"]
    /\ op' = [op EXCEPT ![p] = "load"]
    /\ ret' = [ret EXCEPT ![p] = TRUE]
    /\ error' = [error EXCEPT ![p] = NoError]
    /\ lcount' = [lcount EXCEPT ![p] = 0]
    /\ linvoked' = [linvoked EXCEPT ![p] = 0]
    /\ warnings' = [warnings EXCEPT ![p] = 0]
    /\ lmust' = [lmust EXCEPT ![p] = Keys(keyring)]
    /\ lexact' = [lexact EXCEPT ![p] = Keys(keyring)]
    /\ lmay' = [lmay EXCEPT ![p] = Keys(keyring)]
    /\ UNCHANGED <<xvars, keyring, serial, imported, rpmlogCallback, outcome, kr0, ilocals, vlocals>>

\* lines 196-204: g_dir_open; a directory that cannot be opened is no error,
\* and only an error other than "no such directory" is worth a warning
LoadOpen(p) ==
    /\ pc[p] = "l_open"
    /\ \E dir \in {"ok", "G_FILE_ERROR_NOENT", "G_FILE_ERROR_ACCES"} :
        IF dir # "ok"
          THEN /\ warnings' = [warnings EXCEPT ![p] =
                                  IF dir # "G_FILE_ERROR_NOENT" THEN @ + 1 ELSE @]
               /\ ret' = [ret EXCEPT ![p] = TRUE]
               /\ pc' = [pc EXCEPT ![p] = "done"]
          ELSE /\ pc' = [pc EXCEPT ![p] = "l_read"]
               /\ UNCHANGED <<warnings, ret>>
    /\ UNCHANGED <<xvars, keyring, serial, imported, rpmlogCallback, op, error, outcome, kr0, ilocals, vlocals,
                   lcount, linvoked, lmust, lexact, lmay>>

\* lines 205-212 and 219: g_dir_read_name; at the end of the directory the
\* call returns TRUE, otherwise the entry is handed to dnf_keyring_add_public_key
LoadRead(p) ==
    /\ pc[p] = "l_read"
    /\ \/ /\ pc' = [pc EXCEPT ![p] = "done"]
          /\ ret' = [ret EXCEPT ![p] = TRUE]
          /\ UNCHANGED <<lvars, error, outcome, kr0, ilocals, held, released, readlink>>
       \/ /\ lcount[p] < MaxDirEntries
          /\ \E f \in KeyFiles :
               /\ ImportEnter(p, f)
               /\ lmust' = [lmust EXCEPT ![p] =
                               IF Importable(f) THEN @ \cup ({f.content.primary} \ BadKeyIds) ELSE @]
               /\ lexact' = [lexact EXCEPT ![p] =
                               IF ValidKeyFile(f) THEN @ \cup FileKeys(f) ELSE @]
               /\ lmay' = [lmay EXCEPT ![p] =
                               IF Importable(f) THEN @ \cup FileKeys(f) ELSE @]
          /\ lcount' = [lcount EXCEPT ![p] = @ + 1]
          /\ linvoked' = [linvoked EXCEPT ![p] = @ + 1]
          /\ pc' = [pc EXCEPT ![p] = "i_test"]
          /\ UNCHANGED warnings
    /\ UNCHANGED <<rpm_error, emitted, captured, hdrtags, diag, prev,
                   keyring, serial, imported, rpmlogCallback, op, vlocals>>

\* variant: the first failed import ends the loop and fails the call
LoadCheck_stopsOnFailure(p) ==
    /\ pc[p] = "l_check"
    /\ IF ~ret[p]
         THEN /\ warnings' = [warnings EXCEPT ![p] = @ + 1]
              /\ pc' = [pc EXCEPT ![p] = "done"]
              /\ UNCHANGED error
         ELSE /\ pc' = [pc EXCEPT ![p] = "l_read"]
              /\ UNCHANGED <<warnings, error>>
    /\ UNCHANGED <<xvars, keyring, serial, imported, rpmlogCallback, op, ret, outcome, kr0, ilocals, vlocals,
                   lcount, linvoked, lmust, lexact, lmay>>

\* lines 213-218: a failed import is worth a warning, and the loop goes on
LoadCheck(p) ==
    /\ pc[p] = "l_check"
    /\ IF ~ret[p]
         THEN /\ warnings' = [warnings EXCEPT ![p] = @ + 1]
              /\ error' = [error EXCEPT ![p] = NoError]
         ELSE UNCHANGED <<warnings, error>>
    /\ pc' = [pc EXCEPT ![p] = "l_read"]
    /\ UNCHANGED <<xvars, keyring, serial, imported, rpmlogCallback, op, ret, outcome, kr0, ilocals, vlocals,
                   lcount, linvoked, lmust, lexact, lmay>>

(* ------------------ dnf_keyring_check_untrusted_file -------------------- *)
\* a failing branch: g_set_error and goto out (ret keeps its initial FALSE)
VerifyFail(p, code, msg) ==
    /\ error' = [error EXCEPT ![p] = GError(code, msg)]
    /\ pc' = [pc EXCEPT ![p] = "v_out"]

\* the package files of the callers that do not serialise: well-formed
\* packages signed with the first key, which pass or fail the chain check
RacePackages ==
    {pkg \in Packages :
        /\ WellFormed(pkg) /\ pkg.sigvalid
        /\ pkg.rsa = 1 /\ pkg.dsa = NoKey}

\* lines 250-260: the locals as declared at the top of the function
VerifyCall(p) ==
    /\ MayStart(p)
    /\ \E pkg \in (IF serial THEN Packages ELSE RacePackages) :
           package' = [package EXCEPT ![p] = pkg]
    /\ td' = [td EXCEPT ![p] = ""]
    /\ dig' = [dig EXCEPT ![p] = NoKey]
    /\ steps' = [steps EXCEPT ![p] = <<>>]
    /\ ret' = [ret EXCEPT ![p] = FALSE]
    /\ error' = [error EXCEPT ![p] = NoError]
    /\ outcome' = [outcome EXCEPT ![p] = ""]
    /\ kr0' = [kr0 EXCEPT ![p] = keyring]
    /\ pc' = [pc EXCEPT ![p] = "v_open"]
    /\ op' = [op EXCEPT ![p] = "verify"]
    /\ held' = [held EXCEPT ![p] = {Res("path")}]
    /\ released' = [released EXCEPT ![p] = <<>>]
    /\ rpm_error' = [rpm_error EXCEPT ![p] = <<>>]
    /\ emitted' = [emitted EXCEPT ![p] = <<>>]
    /\ captured' = [captured EXCEPT ![p] = <<>>]
    /\ hdrtags' = [hdrtags EXCEPT ![p] = <<>>]
    /\ diag' = [diag EXCEPT ![p] = <<>>]
    /\ UNCHANGED <<readlink, prev,
                   lvars, keyring, serial, imported, rpmlogCallback, ilocals>>

\* lines 262-280: open the file for reading
VerifyOpen(p) ==
    /\ pc[p] = "v_open"
    /\ steps' = [steps EXCEPT ![p] = Append(@, "open")]
    /\ IF package[p].open = "null"
         THEN VerifyFail(p, "DNF_ERROR_FILE_INVALID", "failed to open")
         ELSE IF package[p].open = "ferror"
         THEN VerifyFail(p, "DNF_ERROR_FILE_INVALID", "failed to open: Fstrerror")
         ELSE /\ pc' = [pc EXCEPT ![p] = "v_setkeyring"]
              /\ error' = error
    /\ held' = [held EXCEPT ![p] = @ \cup (IF package[p].open # "null" THEN {Res("fd")} ELSE {})]
    /\ UNCHANGED <<released, rpm_error, emitted, captured, hdrtags, diag, readlink, prev,
                   lvars, keyring, serial, imported, op, ret, outcome, kr0, rpmlogCallback, ilocals, package, td, dig>>

\* lines 282-289: rpmtsCreate, rpmtsSetKeyring, rpmtsSetVfyLevel, rpmlogSetCallback
VerifySetKeyring(p) ==
    /\ pc[p] = "v_setkeyring"
    /\ steps' = [steps EXCEPT ![p] = Append(@, "setkeyring")]
    /\ IF ~package[p].setkeyring
         THEN /\ VerifyFail(p, "DNF_ERROR_INTERNAL_ERROR", "failed to set keyring")
              /\ UNCHANGED rpmlogCallback
         ELSE /\ rpmlogCallback' = p
              /\ pc' = [pc EXCEPT ![p] = "v_chain"]
              /\ error' = error
    /\ held' = [held EXCEPT ![p] = @ \cup {Res("ts")}]
    /\ UNCHANGED <<released, rpm_error, emitted, captured, hdrtags, diag, readlink, prev,
                   lvars, keyring, serial, imported, op, ret, outcome, kr0, ilocals, package, td, dig>>

\* lines 289-294: while rpmcliVerifySignatures runs for the file of p, rpm
\* logs a line; rpmlog hands it to the callback set last, with the data
\* pointer set with it, or writes it to stderr when no callback is set
VerifyLog(p) ==
    /\ pc[p] = "v_chain"
    /\ Len(emitted[p]) < (IF serial THEN MaxLogLines ELSE MaxRaceLogLines)
    /\ \E line \in (IF serial THEN LogLines ELSE RaceLogLines) :
        /\ emitted' = [emitted EXCEPT ![p] = Append(@, line)]
        /\ IF rpmlogCallback # 0
             THEN /\ rpm_error' = [rpm_error EXCEPT ![rpmlogCallback] =
                                      rpmcliverifysignatures_log_handler_cb(@, line)]
                  /\ captured' = [captured EXCEPT ![rpmlogCallback] = Append(@, <<p, line>>)]
                  /\ held' = [held EXCEPT ![rpmlogCallback] = @ \cup {Res("rpm_error")}]
             ELSE UNCHANGED <<rpm_error, captured, held>>
    /\ UNCHANGED <<released, hdrtags, diag, readlink, prev,
                   lvars, keyring, serial, imported, pc, op, locals, rpmlogCallback>>

\* variant: the result of rpmcliVerifySignatures is not looked at
VerifyChain_ignoresResult(p) ==
    /\ pc[p] = "v_chain"
    /\ steps' = [steps EXCEPT ![p] = Append(@, "chain")]
    /\ pc' = [pc EXCEPT ![p] = "v_readpkg"]
    /\ error' = error
    /\ UNCHANGED <<xvars, lvars, keyring, serial, imported, op, ret, outcome, kr0, rpmlogCallback, ilocals, package, td, dig>>

\* lines 291-302: rpmcliVerifySignatures
VerifyChain(p) ==
    /\ pc[p] = "v_chain"
    /\ steps' = [steps EXCEPT ![p] = Append(@, "chain")]
    /\ IF rpmcliVerifySignatures(keyring, package[p]) # 0
         THEN VerifyFail(p, "DNF_ERROR_GPG_SIGNATURE_INVALID", "could not be verified.")
         ELSE /\ pc' = [pc EXCEPT ![p] = "v_readpkg"]
              /\ error' = error
    /\ diag' = [diag EXCEPT ![p] =
                  IF rpmcliVerifySignatures(keyring, package[p]) # 0
                    THEN (IF rpm_error[p] # <<>> THEN rpm_error[p][1] ELSE UnknownError)
                    ELSE @]
    /\ UNCHANGED <<held, released, rpm_error, emitted, captured, hdrtags, readlink, prev,
                   lvars, keyring, serial, imported, op, ret, outcome, kr0, rpmlogCallback, ilocals, package, td, dig>>

\* variant: a header that cannot be read is reported like a failed chain check
VerifyReadPackage_signatureInvalid(p) ==
    /\ pc[p] = "v_readpkg"
    /\ steps' = [steps EXCEPT ![p] = Append(@, "readpkg")]
    /\ IF ~package[p].hdrok
         THEN VerifyFail(p, "DNF_ERROR_GPG_SIGNATURE_INVALID", "could not be verified.")
         ELSE /\ pc' = [pc EXCEPT ![p] = "v_getsig"]
              /\ error' = error
    /\ held' = [held EXCEPT ![p] = @ \cup (IF package[p].hdrok THEN {Res("hdr")} ELSE {})]
    /\ UNCHANGED <<released, rpm_error, emitted, captured, hdrtags, diag, readlink, prev,
                   lvars, keyring, serial, imported, op, ret, outcome, kr0, rpmlogCallback, ilocals, package, td, dig>>

\* lines 304-318: rpmReadPackageFile, headerConvert
VerifyReadPackage(p) ==
    /\ pc[p] = "v_readpkg"
    /\ steps' = [steps EXCEPT ![p] = Append(@, "readpkg")]
    /\ IF ~package[p].hdrok
         THEN VerifyFail(p, "DNF_ERROR_FILE_INVALID", "could not be verified")
         ELSE /\ pc' = [pc EXCEPT ![p] = "v_getsig"]
              /\ error' = error
    /\ held' = [held EXCEPT ![p] = @ \cup (IF package[p].hdrok THEN {Res("hdr")} ELSE {})]
    /\ UNCHANGED <<released, rpm_error, emitted, captured, hdrtags, diag, readlink, prev,
                   lvars, keyring, serial, imported, op, ret, outcome, kr0, rpmlogCallback, ilocals, package, td, dig>>

\* variant: the DSA tag is looked up when the RSA tag was found
GetSignature_fallbackWhenFound(pkg) ==
    LET rc1 == headerGet(pkg, "RPMTAG_RSAHEADER")
    IN IF rc1 = RPMRC_NOTFOUND
         THEN LET rc2 == headerGet(pkg, "RPMTAG_DSAHEADER")
              IN [rc |-> rc2, td |-> IF rc2 = 1 THEN "RPMTAG_DSAHEADER" ELSE "RPMTAG_RSAHEADER",
                  looked |-> <<"RPMTAG_RSAHEADER", "RPMTAG_DSAHEADER">>]
         ELSE [rc |-> rc1, td |-> "", looked |-> <<"RPMTAG_RSAHEADER">>]

\* lines 320-326: headerGet of the RSA tag, then of the DSA tag as a fallback;
\* yields the last return code, the tag whose data td holds and the tags looked up
GetSignature(pkg) ==
    LET rc1 == headerGet(pkg, "RPMTAG_RSAHEADER")
    IN IF rc1 # RPMRC_NOTFOUND
         THEN LET rc2 == headerGet(pkg, "RPMTAG_DSAHEADER")
              IN [rc |-> rc2, td |-> IF rc2 = 1 THEN "RPMTAG_DSAHEADER" ELSE "",
                  looked |-> <<"RPMTAG_RSAHEADER", "RPMTAG_DSAHEADER">>]
         ELSE [rc |-> rc1, td |-> "RPMTAG_RSAHEADER", looked |-> <<"RPMTAG_RSAHEADER">>]

\* variant: the "package has no signing key" branch is missing
VerifyGetSignature_noUnsignedCheck(p) ==
    /\ pc[p] = "v_getsig"
    /\ steps' = [steps EXCEPT ![p] = Append(@, "getsig")]
    /\ td' = [td EXCEPT ![p] = GetSignature(package[p]).td]
    /\ pc' = [pc EXCEPT ![p] = "v_digest"]
    /\ error' = error
    /\ held' = [held EXCEPT ![p] = @ \cup {Res("td")}]
    /\ hdrtags' = [hdrtags EXCEPT ![p] = GetSignature(package[p]).looked]
    /\ UNCHANGED <<released, rpm_error, emitted, captured, diag, readlink, prev,
                   lvars, keyring, serial, imported, op, ret, outcome, kr0, rpmlogCallback, ilocals, package, dig>>

\* lines 320-337: get the signature field; the package has no signing key
VerifyGetSignature(p) ==
    /\ pc[p] = "v_getsig"
    /\ steps' = [steps EXCEPT ![p] = Append(@, "getsig")]
    /\ LET g == GetSignature(package[p])
       IN /\ td' = [td EXCEPT ![p] = g.td]
          /\ IF g.rc # RPMRC_NOTFOUND
               THEN VerifyFail(p, "DNF_ERROR_GPG_SIGNATURE_INVALID", "package not signed")
               ELSE /\ pc' = [pc EXCEPT ![p] = "v_digest"]
                    /\ error' = error
    /\ held' = [held EXCEPT ![p] = @ \cup {Res("td")}]
    /\ hdrtags' = [hdrtags EXCEPT ![p] = GetSignature(package[p]).looked]
    /\ UNCHANGED <<released, rpm_error, emitted, captured, diag, readlink, prev,
                   lvars, keyring, serial, imported, op, ret, outcome, kr0, rpmlogCallback, ilocals, package, dig>>

\* variant: a digest that cannot be decoded sets the error, and the call goes on
VerifyDigest_continues(p) ==
    /\ pc[p] = "v_digest"
    /\ steps' = [steps EXCEPT ![p] = Append(@, "digest")]
    /\ IF ~package[p].digestok
         THEN /\ error' = [error EXCEPT ![p] =
                              GError("DNF_ERROR_FILE_INVALID", "failed to parse digest header")]
              /\ pc' = [pc EXCEPT ![p] = "v_lookup"]
              /\ UNCHANGED dig
         ELSE /\ dig' = [dig EXCEPT ![p] =
                            IF td[p] = "RPMTAG_RSAHEADER" THEN package[p].rsa ELSE package[p].dsa]
              /\ pc' = [pc EXCEPT ![p] = "v_lookup"]
              /\ error' = error
    /\ held' = [held EXCEPT ![p] = @ \cup {Res("dig")}]
    /\ UNCHANGED <<released, rpm_error, emitted, captured, hdrtags, diag, readlink, prev,
                   lvars, keyring, serial, imported, op, ret, outcome, kr0, rpmlogCallback, ilocals, package, td>>

\* lines 339-349: pgpNewDig, pgpPrtPkts on the data of td
VerifyDigest(p) ==
    /\ pc[p] = "v_digest"
    /\ steps' = [steps EXCEPT ![p] = Append(@, "digest")]
    /\ IF ~package[p].digestok
         THEN /\ VerifyFail(p, "DNF_ERROR_FILE_INVALID", "failed to parse digest header")
              /\ UNCHANGED dig
         ELSE /\ dig' = [dig EXCEPT ![p] =
                            IF td[p] = "RPMTAG_RSAHEADER" THEN package[p].rsa ELSE package[p].dsa]
              /\ pc' = [pc EXCEPT ![p] = "v_lookup"]
              /\ error' = error
    /\ held' = [held EXCEPT ![p] = @ \cup {Res("dig")}]
    /\ UNCHANGED <<released, rpm_error, emitted, captured, hdrtags, diag, readlink, prev,
                   lvars, keyring, serial, imported, op, ret, outcome, kr0, rpmlogCallback, ilocals, package, td>>

\* variant: the result of rpmKeyringLookup is not looked at
VerifyLookup_ignoresResult(p) ==
    /\ pc[p] = "v_lookup"
    /\ steps' = [steps EXCEPT ![p] = Append(@, "lookup")]
    /\ outcome' = [outcome EXCEPT ![p] = "has been verified as trusted"]
    /\ ret' = [ret EXCEPT ![p] = TRUE]
    /\ pc' = [pc EXCEPT ![p] = "v_out"]
    /\ error' = error
    /\ UNCHANGED <<xvars, lvars, keyring, serial, imported, op, kr0, rpmlogCallback, ilocals, package, td, dig>>

\* lines 351-364: does the key exist in the keyring
VerifyLookup(p) ==
    /\ pc[p] = "v_lookup"
    /\ steps' = [steps EXCEPT ![p] = Append(@, "lookup")]
    /\ IF rpmKeyringLookup(keyring, dig[p]) # RPMRC_OK
         THEN /\ VerifyFail(p, "DNF_ERROR_GPG_SIGNATURE_INVALID",
                            "failed to lookup digest in keyring")
              /\ UNCHANGED <<ret, outcome>>
         ELSE /\ outcome' = [outcome EXCEPT ![p] = "has been verified as trusted"]
              /\ ret' = [ret EXCEPT ![p] = TRUE]
              /\ pc' = [pc EXCEPT ![p] = "v_out"]
              /\ error' = error
    /\ UNCHANGED <<xvars, lvars, keyring, serial, imported, op, kr0, rpmlogCallback, ilocals, package, td, dig>>

\* variant: the out label leaves the log callback as it is
VerifyOut_keepsCallback(p) ==
    /\ pc[p] = "v_out"
    /\ rpmlogCallback' = rpmlogCallback
    /\ pc' = [pc EXCEPT ![p] = "done"]
    /\ released' = [released EXCEPT ![p] = VerifyRelease(held[p])]
    /\ held' = [held EXCEPT ![p] = @ \ Range(VerifyRelease(held[p]))]
    /\ UNCHANGED <<rpm_error, emitted, captured, hdrtags, diag, readlink, prev,
                   lvars, keyring, serial, imported, op, locals>>

\* lines 365-382: the out label: reset the log callback, free, return ret
VerifyOut(p) ==
    /\ pc[p] = "v_out"
    /\ rpmlogCallback' = 0
    /\ pc' = [pc EXCEPT ![p] = "done"]
    /\ released' = [released EXCEPT ![p] = VerifyRelease(held[p])]
    /\ held' = [held EXCEPT ![p] = @ \ Range(VerifyRelease(held[p]))]
    /\ UNCHANGED <<rpm_error, emitted, captured, hdrtags, diag, readlink, prev,
                   lvars, keyring, serial, imported, op, locals>>

\* the call has returned: its locals are gone
TakeResult(p) ==
    /\ pc[p] = "done"
    /\ pc' = [pc EXCEPT ![p] = "idle"]
    /\ op' = [op EXCEPT ![p] = "none"]
    /\ filename' = [filename EXCEPT ![p] = NoFile]
    /\ data' = [data EXCEPT ![p] = NoContent]
    /\ ret' = [ret EXCEPT ![p] = TRUE]
    /\ error' = [error EXCEPT ![p] = NoError]
    /\ outcome' = [outcome EXCEPT ![p] = ""]
    /\ subidx' = [subidx EXCEPT ![p] = 0]
    /\ kr0' = [kr0 EXCEPT ![p] = EmptyKeyring]
    /\ attempts' = [attempts EXCEPT ![p] = <<>>]
    /\ didRead' = [didRead EXCEPT ![p] = FALSE]
    /\ package' = [package EXCEPT ![p] = NoPackage]
    /\ td' = [td EXCEPT ![p] = ""]
    /\ dig' = [dig EXCEPT ![p] = NoKey]
    /\ steps' = [steps EXCEPT ![p] = <<>>]
    /\ lcount' = [lcount EXCEPT ![p] = 0]
    /\ linvoked' = [linvoked EXCEPT ![p] = 0]
    /\ warnings' = [warnings EXCEPT ![p] = 0]
    /\ lmust' = [lmust EXCEPT ![p] = {}]
    /\ lexact' = [lexact EXCEPT ![p] = {}]
    /\ lmay' = [lmay EXCEPT ![p] = {}]
    /\ held' = [held EXCEPT ![p] = {}]
    /\ released' = [released EXCEPT ![p] = <<>>]
    /\ rpm_error' = [rpm_error EXCEPT ![p] = <<>>]
    /\ emitted' = [emitted EXCEPT ![p] = <<>>]
    /\ captured' = [captured EXCEPT ![p] = <<>>]
    /\ hdrtags' = [hdrtags EXCEPT ![p] = <<>>]
    /\ diag' = [diag EXCEPT ![p] = <<>>]
    /\ readlink' = [readlink EXCEPT ![p] = FALSE]
    /\ UNCHANGED <<                   keyring, serial, imported, rpmlogCallback>>

\* the caller has taken the result and is ready for its next call
Return(p) ==
    /\ TakeResult(p)
    /\ UNCHANGED prev

\* the same, by a caller that keeps the GError of a failed verify call: the
\* number of steps the call ran, the error code and the message
ReturnKeep(p) ==
    /\ TakeResult(p)
    /\ prev' = IF op[p] = "verify" /\ ~ret[p]
                 THEN <<Len(steps[p]), error[p].code, error[p].msg>>
                 ELSE prev

\* the steps of dnf_keyring_add_public_key, for any caller
ImportNext ==
    \/ \E p \in Procs : ImportCall(p)
    \/ \E p \in Procs : ImportTest(p)
    \/ \E p \in Procs : ImportRead(p)
    \/ \E p \in Procs : ImportParse(p)
    \/ \E p \in Procs : ImportLookup(p)
    \/ \E p \in Procs : ImportAdd(p)
    \/ \E p \in Procs : ImportSubkeys(p)
    \/ \E p \in Procs : ImportOut(p)

LoadNext ==
    \/ \E p \in Procs : LoadCall(p)
    \/ \E p \in Procs : LoadOpen(p)
    \/ \E p \in Procs : LoadRead(p)
    \/ \E p \in Procs : LoadCheck(p)

VerifyNext ==
    \/ \E p \in Procs : VerifyCall(p)
    \/ \E p \in Procs : VerifyOpen(p)
    \/ \E p \in Procs : VerifySetKeyring(p)
    \/ \E p \in Procs : VerifyChain(p)
    \/ \E p \in Procs : VerifyReadPackage(p)
    \/ \E p \in Procs : VerifyGetSignature(p)
    \/ \E p \in Procs : VerifyDigest(p)
    \/ \E p \in Procs : VerifyLookup(p)
    \/ \E p \in Procs : VerifyOut(p)

Next ==
    \/ ImportNext
    \/ LoadNext
    \/ VerifyNext
    \/ \E p \in Procs : Return(p)

\* the callers serialise their calls, as the library asks of them
Spec == Init /\ [][Next]_vars

\* the callers do not serialise, and import the same key file
InitRace == InitCommon /\ serial = FALSE
NextRace ==
    \/ ImportNext
    \/ \E p \in Procs : Return(p)
SpecRace == InitRace /\ [][NextRace]_vars

\* the callers serialise and verify package files, and rpm logs while the
\* chain check runs
NextLog ==
    \/ VerifyNext
    \/ \E p \in Procs : VerifyLog(p)
    \/ \E p \in Procs : Return(p)
SpecLog == Init /\ [][NextLog]_vars

\* the callers serialise and verify package files, and keep the error of the
\* last failed call
NextKinds ==
    \/ VerifyNext
    \/ \E p \in Procs : ReturnKeep(p)
SpecKinds == Init /\ [][NextKinds]_vars

\* the callers do not serialise, and verify package files while rpm logs
NextVerifyRace ==
    \/ VerifyNext
    \/ \E p \in Procs : VerifyLog(p)
    \/ \E p \in Procs : Return(p)
SpecVerifyRace == InitRace /\ [][NextVerifyRace]_vars

\* the callers serialise and import key files, while another process changes
\* the directory entries
NextFs ==
    \/ ImportNext
    \/ \E p \in Procs : FsReplace(p)
    \/ \E p \in Procs : Return(p)
SpecFs == Init /\ [][NextFs]_vars

(* ------------------------ outcomes of the calls ------------------------- *)
\* the call of dnf_keyring_add_public_key made by p, directly or from the
\* loader, has returned
ImportReturned(p) ==
    \/ op[p] = "import" /\ pc[p] = "done"
    \/ op[p] = "load" /\ pc[p] = "l_check"

VerifyReturned(p) == op[p] = "verify" /\ pc[p] = "done"
LoadReturned(p) == op[p] = "load" /\ pc[p] = "done"

\* the outcome of a verify call, named as in the design: by return value and message
VerifyKind(p) ==
    IF ret[p] THEN "Trusted"
    ELSE CASE error[p].msg \in {"failed to open", "failed to open: Fstrerror"} -> "FileOpenError"
           [] error[p].msg = "failed to set keyring" -> "InternalError"
           [] error[p].msg = "could not be verified." -> "SignatureInvalid"
           [] error[p].msg = "could not be verified" -> "FileInvalid"
           [] error[p].msg = "package not signed" -> "NotSigned"
           [] error[p].msg = "failed to parse digest header" -> "DigestParseError"
           [] error[p].msg = "failed to lookup digest in keyring" -> "KeyNotTrusted"
           [] OTHER -> "None"

\* the outcome of an import call
ImportKind(p) ==
    IF ret[p]
      THEN CASE outcome[p] = "added missing public key" -> "Imported"
             [] outcome[p] \in {"is already present", "is already added"} -> "AlreadyPresent"
             [] OTHER -> "Ignored"
      ELSE CASE error[p].msg = "g_file_get_contents" -> "FileReadError"
             [] error[p].msg = "failed to parse PKI file" -> "ParseError"
             [] error[p].msg = "is not a public key" -> "NotAPublicKey"
             [] error[p].msg = "failed to parse public key" -> "KeyParseError"
             [] error[p].msg = "failed to add public key" -> "KeyAddError"
             [] error[p].msg = "failed to add subkeys" -> "SubkeyAddError"
             [] OTHER -> "None"

\* the signature field verify decodes: the RSA one when present, else the DSA one
SigningKey(pkg) == IF pkg.rsa # NoKey THEN pkg.rsa ELSE pkg.dsa

(* ------------------------------ claims ---------------------------------- *)
\* every step of the call went well, judged from the inputs of the call alone
AllStepsPass(p) ==
    /\ WellFormed(package[p])
    /\ rpmcliVerifySignatures(kr0[p], package[p]) = 0
    /\ Signers(package[p]) # {}
    /\ SigningKey(package[p]) \in Keys(kr0[p])

\* C1: verify returns success only if, in that same call, the chain check
\* passed and the keyring lookup of the decoded digest succeeded; whenever any
\* of open, bind keyring, chain check, header read, signature field, digest
\* decode, keyring lookup fails, the call returns failure with an error set.
C1_TrustedOnlyIfBothChecksPass ==
    \A p \in Procs : VerifyReturned(p) =>
        /\ ret[p] =>
            /\ \E i \in DOMAIN steps[p] : steps[p][i] = "chain"
            /\ steps[p][Len(steps[p])] = "lookup"
            /\ rpmcliVerifySignatures(kr0[p], package[p]) = 0
            /\ dig[p] \in Keys(keyring)
            /\ error[p] = NoError
        /\ ~AllStepsPass(p) => (~ret[p] /\ error[p] # NoError /\ VerifyKind(p) # "None")

C1_Witness ==
    \E p \in Procs :
        /\ VerifyReturned(p) /\ ~ret[p]
        /\ VerifyKind(p) = "KeyNotTrusted"
        /\ package[p].ambient /\ ~package[p].sigvalid

\* the package is well formed and signed, and none of its signing keys is in
\* the keyring the call was given
SignedByAbsentKey(p) ==
    /\ WellFormed(package[p]) /\ package[p].sigvalid
    /\ Signers(package[p]) # {}
    /\ Signers(package[p]) \cap Keys(kr0[p]) = {}

\* C2 (as stated): verify on a package whose signing key is absent from the
\* supplied keyring returns KeyNotTrusted.
C2_Original ==
    \A p \in Procs :
        (VerifyReturned(p) /\ SignedByAbsentKey(p)) => VerifyKind(p) = "KeyNotTrusted"

\* C2 (amended): verify on a package whose signing key is absent from the
\* supplied keyring never returns Trusted; it returns KeyNotTrusted when the
\* chain check passes (through a wider trust source) and SignatureInvalid when
\* the chain check, run against the supplied keyring, fails.
C2_Amended ==
    \A p \in Procs :
        (VerifyReturned(p) /\ SignedByAbsentKey(p)) =>
            /\ ~ret[p]
            /\ VerifyKind(p) = IF package[p].ambient THEN "KeyNotTrusted" ELSE "SignatureInvalid"

C2_Witness ==
    \E p \in Procs :
        /\ VerifyReturned(p) /\ SignedByAbsentKey(p)
        /\ package[p].ambient /\ VerifyKind(p) = "KeyNotTrusted"
        /\ kr0[p] = EmptyKeyring

\* the package opens and its header is readable, and the header carries
\* neither an RSA nor a DSA signature field
Unsigned(p) ==
    /\ package[p].open = "ok" /\ package[p].setkeyring /\ package[p].hdrok
    /\ package[p].rsa = NoKey /\ package[p].dsa = NoKey

\* C3 (as stated): verify on a package with neither signature field returns
\* NotSigned whether the chain check passes or fails.
C3_Original ==
    \A p \in Procs : (VerifyReturned(p) /\ Unsigned(p)) => VerifyKind(p) = "NotSigned"

\* C3 (amended): verify on a package with neither signature field never
\* returns Trusted; it returns NotSigned when the chain check passes and
\* SignatureInvalid, without looking at the header, when the chain check fails.
C3_Amended ==
    \A p \in Procs : (VerifyReturned(p) /\ Unsigned(p)) =>
        /\ ~ret[p]
        /\ VerifyKind(p) = IF rpmcliVerifySignatures(kr0[p], package[p]) = 0
                             THEN "NotSigned" ELSE "SignatureInvalid"
        /\ VerifyKind(p) = "SignatureInvalid" => steps[p] = <<"open", "setkeyring", "chain">>

C3_Witness ==
    \E p \in Procs :
        /\ VerifyReturned(p) /\ Unsigned(p)
        /\ package[p].ambient /\ VerifyKind(p) = "NotSigned"

\* C4: once import of a key file with primary key K has returned Imported,
\* verify of a package validly signed only by K, against that keyring and with
\* no wider trust source, returns Trusted.
C4_ImportThenVerifyTrusted ==
    \A p \in Procs :
        ( /\ VerifyReturned(p)
          /\ WellFormed(package[p]) /\ package[p].sigvalid /\ ~package[p].ambient
          /\ Signers(package[p]) # {}
          /\ Signers(package[p]) \subseteq imported )
        => (ret[p] /\ VerifyKind(p) = "Trusted" /\ error[p] = NoError)

C4_Witness ==
    \E p \in Procs :
        /\ VerifyReturned(p) /\ ret[p]
        /\ ~package[p].ambient /\ package[p].sigvalid
        /\ Signers(package[p]) \subseteq imported
        /\ Keys(keyring) = Signers(package[p])

\* the call was given an importable key file whose primary key was in the
\* keyring when the call started
Reimport(p) ==
    /\ ImportReturned(p) /\ Importable(filename[p])
    /\ filename[p].content.primary \in Keys(kr0[p])

\* C5: an import of a key file whose primary key is already in the keyring
\* returns success as AlreadyPresent, whether the lookup finds the key or the
\* add primitive reports it as already added, and leaves the keyring as it
\* was; so does every repetition of the call.
C5_ReimportIdempotent ==
    \A p \in Procs : Reimport(p) =>
        /\ ret[p] /\ error[p] = NoError
        /\ ImportKind(p) = "AlreadyPresent"
        /\ keyring = kr0[p]

C5_Witness ==
    \E p \in Procs :
        /\ Reimport(p) /\ outcome[p] = "is already added"
        /\ filename[p].content.primary \in imported
        /\ filename[p].content.subkeys # <<>>

\* the call was given a regular, readable file that is not a symbolic link
ReadableFile(f) == IsRegular(f) /\ ~IsSymlink(f) /\ f.readable

\* C6: a key file that does not parse as armored PGP data, or whose armor type
\* is not "public key", or whose packets do not make a key, makes import
\* return failure with the matching error, and the keyring stays as it was.
C6_MalformedKeyFileRejected ==
    \A p \in Procs : (ImportReturned(p) /\ ReadableFile(filename[p])) =>
        LET c == filename[p].content
            rejected == /\ ~ret[p] /\ error[p].code = "DNF_ERROR_GPG_SIGNATURE_INVALID"
                        /\ keyring = kr0[p] /\ attempts[p] = <<>>
        IN /\ c.armor < 0 => (rejected /\ ImportKind(p) = "ParseError")
           /\ (c.armor >= 0 /\ c.armor # PGPARMOR_PUBKEY) =>
                  (rejected /\ ImportKind(p) = "NotAPublicKey")
           /\ (c.armor = PGPARMOR_PUBKEY /\ ~c.keyok) =>
                  (rejected /\ ImportKind(p) = "KeyParseError")

C6_Witness ==
    \E p \in Procs :
        /\ ImportReturned(p) /\ ReadableFile(filename[p])
        /\ filename[p].content.armor = PGPARMOR_NONE
        /\ ImportKind(p) = "NotAPublicKey"
        /\ Keys(keyring) # {}

\* the first subkey of the file that librpm refuses to add (0: none)
FirstBadSubkey(c) ==
    IF \E i \in DOMAIN c.subkeys : c.subkeys[i] \in BadKeyIds
      THEN CHOOSE i \in DOMAIN c.subkeys :
               /\ c.subkeys[i] \in BadKeyIds
               /\ \A j \in 1..(i - 1) : c.subkeys[j] \notin BadKeyIds
      ELSE 0

\* C7: when import has added the primary key and the add of subkey i fails,
\* the call returns SubkeyAddError, no subkey after i is handed to the add
\* primitive, and the primary key and the subkeys before i are in the keyring.
C7_SubkeyFailureNoRollback ==
    \A p \in Procs :
        LET c == filename[p].content
            i == FirstBadSubkey(c)
        IN ( /\ ImportReturned(p) /\ Importable(filename[p])
             /\ c.primary \notin Keys(kr0[p]) /\ c.primary \notin BadKeyIds
             /\ i > 0 ) =>
            /\ ~ret[p] /\ ImportKind(p) = "SubkeyAddError"
            /\ attempts[p] = <<c.primary>> \o SubSeq(c.subkeys, 1, i)
            /\ c.primary \in Keys(keyring)
            /\ \A j \in 1..(i - 1) : c.subkeys[j] \in Keys(keyring)

C7_Witness ==
    \E p \in Procs :
        /\ ImportReturned(p) /\ ImportKind(p) = "SubkeyAddError"
        /\ Len(attempts[p]) = 2 /\ Len(filename[p].content.subkeys) = 2
        /\ filename[p].content.primary \in Keys(keyring) \ Keys(kr0[p])

C9_NonRegularOrSymlinkIgnored ==
    \A p \in Procs :
        (ImportReturned(p) /\ (~IsRegular(filename[p]) \/ IsSymlink(filename[p]))) =>
            /\ ret[p] /\ error[p] = NoError
            /\ ~didRead[p]
            /\ attempts[p] = <<>> /\ keyring = kr0[p]

C9_Witness ==
    \E p \in Procs :
        /\ ImportReturned(p)
        /\ IsRegular(filename[p]) /\ IsSymlink(filename[p])
        /\ filename[p].content.keyok
        /\ filename[p].content.primary \notin Keys(keyring) \cup BadKeyIds

\* C10: for every interleaving of import calls of the same key file against
\* one keyring, with atomic lookup and add and an add that reports "already
\* added", the keyring never holds two entries for a key, and once all calls
\* have returned none has failed and the primary key has exactly one entry.
C10_ConcurrentImportNoDuplicate ==
    /\ \A k \in KeyIds : keyring[k] <= 1
    /\ \A p, q \in Procs :
        ( /\ p # q
          /\ op[p] = "import" /\ pc[p] = "done"
          /\ op[q] = "import" /\ pc[q] = "done"
          /\ filename[p] = filename[q]
          /\ ValidKeyFile(filename[p]) ) =>
            /\ ret[p] /\ ret[q]
            /\ error[p] = NoError /\ error[q] = NoError
            /\ keyring[filename[p].content.primary] = 1

C10_Witness ==
    \E p, q \in Procs :
        /\ p # q
        /\ op[p] = "import" /\ pc[p] = "done"
        /\ op[q] = "import" /\ pc[q] = "done"
        /\ filename[p] = filename[q]
        /\ outcome[p] = "added missing public key"
        /\ outcome[q] = "is already added"
        /\ kr0[p] = EmptyKeyring /\ kr0[q] = EmptyKeyring

(* ---------------------------------------------------------------------- *)
\* C12: across import, load_all and verify calls the set of keys in the
\* keyring only grows and no entry is ever removed; a verify call that has
\* returned, whatever its outcome, has left the keyring as it was when the
\* call started.
C12_KeyringOnlyGrows ==
    [][ /\ \A k \in KeyIds : keyring'[k] >= keyring[k]
        /\ Keys(keyring) \subseteq Keys(keyring')
        /\ \A p \in Procs : (op'[p] = "verify") => keyring' = kr0'[p] ]_vars

\* a verify call has returned with an error on a keyring that import and
\* load_all calls have filled with more than one key
C12_Witness ==
    \E p \in Procs :
        /\ VerifyReturned(p) /\ ~ret[p]
        /\ imported # {}
        /\ Cardinality(Keys(keyring)) >= 2
        /\ keyring = kr0[p]

(* ---------------------------------------------------------------------- *)
\* the steps of verify that can fail, in the order of the code; the log sink
\* is installed between "setkeyring" and "chain"
StepOrder == <<"open", "setkeyring", "chain", "readpkg", "getsig", "digest", "lookup">>

\* the outcome of a failure of each step
StepKind == <<"FileOpenError", "InternalError", "SignatureInvalid", "FileInvalid",
              "NotSigned", "DigestParseError", "KeyNotTrusted">>

\* step i fails on package pkg and keyring kr, judged from the inputs alone
StepFails(pkg, kr, i) ==
    CASE i = 1 -> pkg.open # "ok"
      [] i = 2 -> ~pkg.setkeyring
      [] i = 3 -> rpmcliVerifySignatures(kr, pkg) # 0
      [] i = 4 -> ~pkg.hdrok
      [] i = 5 -> Signers(pkg) = {}
      [] i = 6 -> ~pkg.digestok
      [] i = 7 -> SigningKey(pkg) \notin Keys(kr)

\* the earliest failing step, 0 when every step passes
FirstFailure(pkg, kr) ==
    IF \E i \in DOMAIN StepOrder : StepFails(pkg, kr, i)
      THEN CHOOSE i \in DOMAIN StepOrder :
               /\ StepFails(pkg, kr, i)
               /\ \A j \in 1..(i - 1) : ~StepFails(pkg, kr, j)
      ELSE 0

\* C13: verify runs open, bind keyring, install sink, chain check, read
\* header, find signature field, decode digest, keyring lookup in this order;
\* it stops at the first failing step, the error returned is that of the
\* earliest failing step, and no step runs after a failure.
C13_StepsInOrderFirstFailureEnds ==
    \A p \in Procs : (op[p] = "verify") =>
        /\ Len(steps[p]) <= Len(StepOrder)
        /\ \A i \in DOMAIN steps[p] : steps[p][i] = StepOrder[i]
        /\ \A i \in DOMAIN steps[p] :
               i < Len(steps[p]) => ~StepFails(package[p], kr0[p], i)
        /\ (pc[p] \in {"v_open", "v_setkeyring"}) => rpmlogCallback = 0
        /\ (pc[p] = "v_chain") => rpmlogCallback = p
        /\ VerifyReturned(p) =>
               LET f == FirstFailure(package[p], kr0[p])
               IN IF f = 0
                    THEN ret[p] /\ steps[p] = StepOrder /\ error[p] = NoError
                    ELSE /\ ~ret[p]
                         /\ Len(steps[p]) = f
                         /\ VerifyKind(p) = StepKind[f]

\* a call has ended at the digest step although the lookup would fail too
C13_Witness ==
    \E p \in Procs :
        /\ VerifyReturned(p)
        /\ VerifyKind(p) = "DigestParseError"
        /\ StepFails(package[p], kr0[p], 7)
        /\ steps[p] = SubSeq(StepOrder, 1, 6)

(* ---------------------------------------------------------------------- *)
\* C16: verify looks up the RSA signature field first and the DSA field if
\* and only if the RSA field is absent; the digest decoded and looked up in
\* the keyring is the RSA field when it is present, also next to a DSA field,
\* and the DSA field otherwise; NotSigned is returned iff both are absent.
C16_RsaFirstDsaFallback ==
    \A p \in Procs : (op[p] = "verify" /\ Len(steps[p]) >= 5) =>
        LET pkg == package[p] IN
        /\ hdrtags[p][1] = "RPMTAG_RSAHEADER"
        /\ hdrtags[p] = IF pkg.rsa = NoKey
                          THEN <<"RPMTAG_RSAHEADER", "RPMTAG_DSAHEADER">>
                          ELSE <<"RPMTAG_RSAHEADER">>
        /\ (pkg.rsa # NoKey) => td[p] = "RPMTAG_RSAHEADER"
        /\ (pkg.rsa = NoKey /\ pkg.dsa # NoKey) => td[p] = "RPMTAG_DSAHEADER"
        /\ (Len(steps[p]) >= 6 /\ pkg.digestok) =>
               dig[p] = IF pkg.rsa # NoKey THEN pkg.rsa ELSE pkg.dsa
        /\ (VerifyReturned(p) /\ Len(steps[p]) = 7) =>
               (ret[p] <=> (IF pkg.rsa # NoKey THEN pkg.rsa ELSE pkg.dsa) \in Keys(keyring))
        /\ VerifyReturned(p) =>
               (VerifyKind(p) = "NotSigned" <=> (pkg.rsa = NoKey /\ pkg.dsa = NoKey))

\* a package with both fields, signed with a trusted RSA key and a DSA key
\* that is not in the keyring, has been verified as trusted
C16_Witness ==
    \E p \in Procs :
        /\ VerifyReturned(p) /\ ret[p]
        /\ package[p].rsa # NoKey /\ package[p].dsa # NoKey
        /\ package[p].rsa \in Keys(keyring)
        /\ package[p].dsa \notin Keys(keyring)
        /\ hdrtags[p] = <<"RPMTAG_RSAHEADER">>

(* ---------------------------------------------------------------------- *)
\* the resources a verify call has acquired, judged from its file and from
\* how far it got
VerifyAcquired(p) ==
    {Res("path")}
    \cup (IF package[p].open # "null" THEN {Res("fd")} ELSE {})
    \cup (IF Len(steps[p]) >= 2 THEN {Res("ts")} ELSE {})
    \cup (IF Len(steps[p]) >= 4 /\ package[p].hdrok THEN {Res("hdr")} ELSE {})
    \cup (IF Len(steps[p]) >= 5 THEN {Res("td")} ELSE {})
    \cup (IF Len(steps[p]) >= 6 THEN {Res("dig")} ELSE {})
    \cup (IF captured[p] # <<>> THEN {Res("rpm_error")} ELSE {})

\* the resources an import call has acquired, judged from its file and from
\* the keyring it started on
ImportAcquired(p) ==
    LET c == filename[p].content
        parsed == didRead[p] /\ filename[p].readable
        key == parsed /\ c.armor = PGPARMOR_PUBKEY /\ c.keyok
    IN (IF parsed THEN {Res("data")} ELSE {})
       \cup (IF parsed /\ c.armor > PGPARMOR_NONE THEN {Res("pkt")} ELSE {})
       \cup (IF key THEN {Res("pubkey"), Res("dig")} ELSE {})
       \cup (IF key /\ attempts[p] # <<>> /\ c.primary \notin BadKeyIds /\ kr0[p][c.primary] = 0
              THEN {Res("subkeys")} \cup {Subkey(i) : i \in 1..Len(c.subkeys)} ELSE {})

NoDuplicates(s) == \A i, j \in DOMAIN s : s[i] = s[j] => i = j

\* C17: on every exit path of verify and of import every resource acquired
\* during the call is released exactly once, no resource that was never
\* acquired is released, and nothing is released before the exit.
C17_ResourcesReleasedExactlyOnce ==
    \A p \in Procs :
        /\ VerifyReturned(p) =>
              /\ held[p] = {}
              /\ NoDuplicates(released[p])
              /\ Range(released[p]) = VerifyAcquired(p)
        /\ ImportReturned(p) =>
              /\ held[p] = {}
              /\ NoDuplicates(released[p])
              /\ Range(released[p]) = ImportAcquired(p)
        /\ (pc[p] \notin {"done", "idle", "l_check", "l_read", "l_open"}) =>
              released[p] = <<>>

\* a verify call has failed on an unsigned package and released what it held,
\* and no digest
C17_Witness ==
    \E p \in Procs :
        /\ VerifyReturned(p) /\ VerifyKind(p) = "NotSigned"
        /\ released[p] = <<Res("path"), Res("td"), Res("ts"), Res("hdr"), Res("fd")>>

(* ---------------------------------------------------------------------- *)
\* C20: whenever an import of a regular, parseable public-key file returns
\* success (Imported or AlreadyPresent), the primary key of the file and every
\* one of its subkeys are in the keyring, also when the call is a re-import
\* after an import of the same file that failed with SubkeyAddError.
C20_SuccessMeansAllKeysPresent ==
    \A p \in Procs :
        ( /\ ImportReturned(p)
          /\ Importable(filename[p])
          /\ ImportKind(p) \in {"Imported", "AlreadyPresent"} ) =>
            FileKeys(filename[p]) \subseteq Keys(keyring)

\* an import of a key file with a subkey the keyring refuses has returned
\* AlreadyPresent: the primary key was left behind by an import that failed
\* with SubkeyAddError, and the subkey loop was not entered again
C20_ReimportAfterSubkeyAddError ==
    \E p \in Procs :
        /\ ImportReturned(p)
        /\ Importable(filename[p])
        /\ ImportKind(p) = "AlreadyPresent"
        /\ attempts[p] = <<>>
        /\ imported = {}
        /\ FileKeys(filename[p]) \cap BadKeyIds # {}
        /\ ~(FileKeys(filename[p]) \subseteq Keys(keyring))

(* ---------------------------------------------------------------------- *)
\* C11: every return of verify, on success and on each failure branch, also
\* those before the sink is installed, leaves the process-wide rpm log
\* callback reset; hence, for calls that do not overlap, the diagnostic buffer
\* of a call starts empty and holds only lines logged during that call.
C11_CallbackResetOnEveryReturn ==
    /\ (\A p \in Procs : pc[p] \in {"idle", "done"}) => rpmlogCallback = 0
    /\ \A p \in Procs :
        /\ VerifyReturned(p) => rpmlogCallback = 0
        /\ (op[p] = "verify" /\ emitted[p] = <<>>) =>
               (rpm_error[p] = <<>> /\ captured[p] = <<>>)
        /\ (op[p] = "verify") =>
               /\ Len(captured[p]) = Len(emitted[p])
               /\ \A i \in DOMAIN captured[p] : captured[p][i] = <<p, emitted[p][i]>>
        /\ (VerifyReturned(p) /\ VerifyKind(p) = "SignatureInvalid") =>
               diag[p] = IF captured[p] = <<>> THEN UnknownError ELSE rpm_error[p][1]

\* a call whose chain check logged two lines has returned SignatureInvalid
\* and the callback is reset
C11_Witness ==
    \E p \in Procs :
        /\ VerifyReturned(p) /\ VerifyKind(p) = "SignatureInvalid"
        /\ Len(captured[p]) = MaxLogLines
        /\ diag[p] # UnknownError
        /\ rpmlogCallback = 0

(* ---------------------------------------------------------------------- *)
\* a line without its trailing line terminator, when it has one
StripTerminator(line) ==
    IF Len(line) > 0 /\ line[Len(line)] = "\n" THEN SubSeq(line, 1, Len(line) - 1) ELSE line

\* the lines of a sequence, each stripped of its terminator, separated by sep
RECURSIVE JoinLines(_, _)
JoinLines(lines, sep) ==
    IF lines = <<>> THEN <<>>
    ELSE IF Len(lines) = 1 THEN StripTerminator(lines[1])
    ELSE StripTerminator(lines[1]) \o sep \o JoinLines(Tail(lines), sep)

\* the lines the buffer of a call has captured, in the order of capture
CapturedLines(p) == [i \in DOMAIN captured[p] |-> captured[p][i][2]]

\* C15: when the chain check fails, the diagnostic part of the
\* SignatureInvalid message is the sequence of all log lines captured during
\* the call, in emission order, newline-separated, with only the trailing
\* line terminator of each line stripped; with no line captured it is the
\* marker UNKNOWN ERROR.
C15_DiagnosticIsCapturedLines ==
    \A p \in Procs : (VerifyReturned(p) /\ VerifyKind(p) = "SignatureInvalid") =>
        diag[p] = IF captured[p] = <<>> THEN UnknownError
                  ELSE JoinLines(CapturedLines(p), <<"\n">>)

\* the chain check of a call has logged the single line "aa", which has no
\* line terminator, and the diagnostic text is "a"
C15_LineLosesLastCharacter ==
    \E p \in Procs :
        /\ VerifyReturned(p) /\ VerifyKind(p) = "SignatureInvalid"
        /\ CapturedLines(p) = << <<"a", "a">> >>
        /\ diag[p] = <<"a">>

(* ---------------------------------------------------------------------- *)
\* the error code of a failure of each step
StepCode == <<"DNF_ERROR_FILE_INVALID", "DNF_ERROR_INTERNAL_ERROR",
              "DNF_ERROR_GPG_SIGNATURE_INVALID", "DNF_ERROR_FILE_INVALID",
              "DNF_ERROR_GPG_SIGNATURE_INVALID", "DNF_ERROR_FILE_INVALID",
              "DNF_ERROR_GPG_SIGNATURE_INVALID">>

\* a verify call has failed, and the caller holds the error of an earlier
\* failed call that ended in another branch
TwoFailures(p) ==
    /\ VerifyReturned(p) /\ ~ret[p]
    /\ prev # <<>>
    /\ prev[1] # Len(steps[p])

C18_SinkNotSharedBetweenCalls ==
    \A p \in Procs :
        /\ (pc[p] = "v_chain") => rpmlogCallback = p
        /\ \A i \in DOMAIN captured[p] : captured[p][i][1] = p
        /\ (VerifyReturned(p) /\ VerifyKind(p) = "SignatureInvalid") =>
               (diag[p] = UnknownError <=> emitted[p] = <<>>)

\* a call has returned SignatureInvalid with a diagnostic text made of a line
\* that rpm logged for the file of another call
C18_ForeignLineInDiagnostic ==
    \E p, q \in Procs :
        /\ p # q
        /\ VerifyReturned(p) /\ VerifyKind(p) = "SignatureInvalid"
        /\ emitted[p] = <<>>
        /\ captured[p] = << <<q, <<"a", "\n">> >> >>
        /\ diag[p] = <<"a">>

(* ---------------------------------------------------------------------- *)
\* C19: import never adds to the keyring a key whose bytes were read through
\* a symbolic link, whatever a filesystem actor does to the path between the
\* file-type checks and the read of the contents.
C19_NoKeyReadThroughSymlink ==
    \A p \in Procs :
        (op[p] = "import" /\ readlink[p]) => (attempts[p] = <<>> /\ keyring = kr0[p])

\* an import has read its bytes through a symbolic link that took the place
\* of the regular file after the tests, and has added the key found there
C19_SymlinkKeyImported ==
    \E p \in Procs :
        /\ ImportReturned(p) /\ ImportKind(p) = "Imported"
        /\ readlink[p] /\ IsSymlink(filename[p])
        /\ kr0[p] = EmptyKeyring
        /\ Keys(keyring) = FileKeys(filename[p])

====
